---- MODULE Spec2Model ----
(***************************************************************************)
(* Model of upload_results_to_azure_blob.py: a batch agent that probes an  *)
(* Azure Blob container, lists results_export_*.tar.gz in a spool          *)
(* directory, uploads each file with bounded retries and renames the       *)
(* uploaded file to uploaded_at_<timestamp>_<name>.                        *)
(*                                                                         *)
(* Runs are the invocations of the script (main).  A file name is a        *)
(* sequence of tokens, a path a record [dir, name], a blob name a sequence *)
(* of tokens.  The clock `now` counts seconds; a day is TicksPerDay of     *)
(* them.  The blob service, the file system's rename and the export        *)
(* process that fills the spool directory are the environment.             *)
(***************************************************************************)
EXTENDS Integers, Sequences, FiniteSets, TLC

\* ------------------------------------------------------------------ bounds
NumRuns == 2
MaxRetries == 3
MaxClock == 2
TicksPerDay == 2

\* the processes that can run the script; the scheduler's is the one the
\* agent is operated with
Procs == {"cron", "manual"}
Scheduled == "cron"
\* --max_retries / --retry_delay are argparse type=int with no range check
\* (and config.get(...) takes whatever the YAML holds): zero and negative
\* values are accepted.
RetryChoices == (0 - 1)..MaxRetries
DelayChoices == {0 - 1, 5}
SystemIds == {"sysA", "sysB"}
Stems == {"a", "b"}
Directory == "/var/log/opsview"

VARIABLES
  opsview_system_id,  \* the system id the installation passes to every run
  fs,               \* the paths that exist on the local file system
  now,              \* the wall clock, in seconds
  blobs,            \* the blob names that exist in the container
  uploadLog,        \* history: the successful upload_blob calls
  started,          \* history: the number of runs started
  prevFailed,       \* history: the files whose uploads all failed in the run before
  pc,               \* each process's position in main / upload_files_to_blob
  cfg,              \* each run's parameters (main, lines 220-238)
  probe,            \* each run's connectivity probe outcome
  files_to_upload,  \* each run's glob result (line 136)
  idx,              \* each run's position of the for loop in files_to_upload
  blob_name,        \* each run's blob_name of the current file (line 139)
  keyTime,          \* history: the clock when blob_name was computed
  retry_count,      \* each run's retry_count in upload_file_to_blob
  attempts,         \* history: upload attempts on the current file
  fails,            \* history: failed upload attempts on the current file
  sleeps,           \* history: completed time.sleep calls for the current file
  overwrote,        \* history: the upload of the current file replaced a blob
  renameCalls,      \* history: rename_file_on_success calls on the current file
  outcome,          \* history: per file, what the loop body reported
  failedFiles,      \* history: the files whose upload attempts all failed
  abortAt,          \* history: where an exception left the for loop
  success,          \* each run's return value of upload_files_to_blob
  mainReturn,       \* each run's return value of main
  exitCode          \* each run's process exit status

shared == <<opsview_system_id, fs, now, blobs, uploadLog, started, prevFailed>>
config == <<cfg, probe>>
loop == <<files_to_upload, idx, blob_name, keyTime>>
engine == <<retry_count, attempts, fails, sleeps, overwrote>>
marks == <<renameCalls, outcome, failedFiles>>
result == <<abortAt, success, mainReturn, exitCode>>
vars == <<shared, pc, config, loop, engine, marks, result>>

\* ------------------------------------------------------- names and paths
Path(d, n) == [dir |-> d, name |-> n]
dirname(p) == p.dir
basename(p) == p.name
join(d, n) == Path(d, n)

ExportName(stem) == <<"results_export_", stem, ".tar.gz">>
OtherFile == Path(Directory, <<"other", ".log">>)
PendingPaths == {Path(Directory, ExportName(s)) : s \in Stems}

\* the pattern *results_export_*.tar.gz: the prefix may stand anywhere
MatchesPattern_anywhere(n) ==
  /\ Len(n) >= 2
  /\ \E i \in 1..(Len(n) - 1) : n[i] = "results_export_"
  /\ n[Len(n)] = ".tar.gz"

\* fnmatch of a name against results_export_*.tar.gz
MatchesPattern(n) ==
  /\ Len(n) >= 2
  /\ n[1] = "results_export_"
  /\ n[Len(n)] = ".tar.gz"

\* glob.glob(f"{directory}/results_export_*.tar.gz"): the matching paths of
\* the directory, as a set (the order of the list is chosen in Discover)
glob(d, files) == {p \in files : dirname(p) = d /\ MatchesPattern(basename(p))}

\* datetime.datetime.now().strftime('%Y%m%d')
strftime_Ymd(t) == ToString(t \div TicksPerDay)
\* datetime.datetime.now().strftime('%Y%m%d%H%M%S')
strftime_YmdHMS(t) == ToString(t)

\* line 139 with the timestamp of the rename in place of the date
BlobName_withTime(system_id, t, file_path) ==
  <<system_id, "/", strftime_YmdHMS(t), "/">> \o basename(file_path)

\* line 139: f"{opsview_system_id}/{date}/{os.path.basename(file_path)}"
BlobName(system_id, t, file_path) ==
  <<system_id, "/", strftime_Ymd(t), "/">> \o basename(file_path)

\* lines 81-84: the new name of rename_file_on_success
NewName(original_path, t) ==
  join(dirname(original_path),
       <<"uploaded_at_", strftime_YmdHMS(t), "_">> \o basename(original_path))

\* all orders of a finite set, as sequences
Perms(S) ==
  {s \in [1..Cardinality(S) -> S] : \A i, j \in 1..Cardinality(S) : s[i] = s[j] => i = j}

Range(s) == {s[i] : i \in 1..Len(s)}

\* Python truth value of upload_files_to_blob's return value
Truthy(v) == v = "True"

NoFile == Path("", <<>>)
CurrentFile(r) ==
  IF idx[r] \in 1..Len(files_to_upload[r]) THEN files_to_upload[r][idx[r]] ELSE NoFile

\* ------------------------------------------------------------------ Init
DefaultCfg == [system_id |-> "", max_retries |-> 3, retry_delay |-> 5]
NoOutcome == [f \in PendingPaths |-> "none"]

Init ==
  /\ opsview_system_id \in SystemIds
  /\ fs = {OtherFile, Path(Directory, ExportName("a"))}
  /\ now = 0
  /\ blobs = {}
  /\ uploadLog = {}
  /\ started = 0
  /\ prevFailed = {}
  /\ pc = [r \in Procs |-> "idle"]
  /\ cfg = [r \in Procs |-> DefaultCfg]
  /\ probe = [r \in Procs |-> "none"]
  /\ files_to_upload = [r \in Procs |-> <<>>]
  /\ idx = [r \in Procs |-> 0]
  /\ blob_name = [r \in Procs |-> <<>>]
  /\ keyTime = [r \in Procs |-> 0]
  /\ retry_count = [r \in Procs |-> 0]
  /\ attempts = [r \in Procs |-> 0]
  /\ fails = [r \in Procs |-> 0]
  /\ sleeps = [r \in Procs |-> 0]
  /\ overwrote = [r \in Procs |-> FALSE]
  /\ renameCalls = [r \in Procs |-> 0]
  /\ outcome = [r \in Procs |-> NoOutcome]
  /\ failedFiles = [r \in Procs |-> {}]
  /\ abortAt = [r \in Procs |-> "none"]
  /\ success = [r \in Procs |-> "unset"]
  /\ mainReturn = [r \in Procs |-> 0]
  /\ exitCode = [r \in Procs |-> 0]

\* ----------------------------------------------------------- environment
\* the clock advances
Tick ==
  /\ now < MaxClock
  /\ now' = now + 1
  /\ UNCHANGED <<opsview_system_id, fs, blobs, uploadLog, started, prevFailed>>
  /\ UNCHANGED <<pc, config, loop, engine, marks, result>>

\* s names an archive that is in the directory, pending or renamed
Exported(s, files) ==
  \E p \in files :
    /\ Len(basename(p)) >= 3
    /\ SubSeq(basename(p), Len(basename(p)) - 2, Len(basename(p))) = ExportName(s)

\* the export process writes a new archive into the spool directory
\* (archive names are unique: a name is written once)
ExportCreate(s) ==
  /\ ~Exported(s, fs)
  /\ fs' = fs \cup {Path(Directory, ExportName(s))}
  /\ UNCHANGED <<opsview_system_id, now, blobs, uploadLog, started, prevFailed>>
  /\ UNCHANGED <<pc, config, loop, engine, marks, result>>

\* ------------------------------------------------------------------ main
\* a process starts the script again when its last run has ended; the history
\* of that run is dropped, but for the files it left pending
MayStart(r) ==
  /\ pc[r] \in {"idle", "done"}
  /\ started < NumRuns

Fresh(r) ==
  /\ started' = started + 1
  /\ prevFailed' = failedFiles[r]
  /\ probe' = [probe EXCEPT ![r] = "none"]
  /\ files_to_upload' = [files_to_upload EXCEPT ![r] = <<>>]
  /\ idx' = [idx EXCEPT ![r] = 0]
  /\ blob_name' = [blob_name EXCEPT ![r] = <<>>]
  /\ keyTime' = [keyTime EXCEPT ![r] = 0]
  /\ retry_count' = [retry_count EXCEPT ![r] = 0]
  /\ attempts' = [attempts EXCEPT ![r] = 0]
  /\ fails' = [fails EXCEPT ![r] = 0]
  /\ sleeps' = [sleeps EXCEPT ![r] = 0]
  /\ overwrote' = [overwrote EXCEPT ![r] = FALSE]
  /\ renameCalls' = [renameCalls EXCEPT ![r] = 0]
  /\ outcome' = [outcome EXCEPT ![r] = NoOutcome]
  /\ failedFiles' = [failedFiles EXCEPT ![r] = {}]
  /\ abortAt' = [abortAt EXCEPT ![r] = "none"]
  /\ success' = [success EXCEPT ![r] = "unset"]
  /\ exitCode' = [exitCode EXCEPT ![r] = 0]
  /\ UNCHANGED <<opsview_system_id, fs, now, blobs, uploadLog>>

\* lines 213-251, all required parameters given
Start(r) ==
  /\ MayStart(r)
  /\ Fresh(r)
  /\ \E m \in RetryChoices, d \in DelayChoices :
       cfg' = [cfg EXCEPT ![r] =
         [system_id |-> opsview_system_id, max_retries |-> m, retry_delay |-> d]]
  /\ pc' = [pc EXCEPT ![r] = "probe"]
  /\ mainReturn' = [mainReturn EXCEPT ![r] = 0]

\* lines 247-251: a required parameter is None or "": return 1
MissingParams(r) ==
  /\ MayStart(r)
  /\ Fresh(r)
  /\ cfg' = [cfg EXCEPT ![r] = DefaultCfg]
  /\ mainReturn' = [mainReturn EXCEPT ![r] = 1]
  /\ pc' = [pc EXCEPT ![r] = "exit"]

ProbeOutcomes == {"Reachable", "AuthFailed", "NetworkFailed", "OtherFailed"}

\* lines 47-73: True only when get_container_properties returned
is_blob_service_available(o) == o = "Reachable"

\* lines 254-258
Probe(r) ==
  /\ pc[r] = "probe"
  /\ \E o \in ProbeOutcomes :
       /\ probe' = [probe EXCEPT ![r] = o]
       /\ IF is_blob_service_available(o)
            THEN /\ pc' = [pc EXCEPT ![r] = "upload"]
                 /\ UNCHANGED mainReturn
            ELSE /\ pc' = [pc EXCEPT ![r] = "exit"]
                 /\ mainReturn' = [mainReturn EXCEPT ![r] = 1]
  /\ UNCHANGED <<shared, cfg, loop, engine, marks, abortAt, success, exitCode>>

\* -------------------------------------------------- upload_files_to_blob
\* lines 154-156: an exception anywhere in the try block ends the function
Abort(r, where) ==
  /\ abortAt' = [abortAt EXCEPT ![r] = where]
  /\ success' = [success EXCEPT ![r] = "False"]
  /\ pc' = [pc EXCEPT ![r] = "ret"]
  /\ UNCHANGED <<mainReturn, exitCode>>

\* lines 127-136: the clients are built and the directory is listed once
Discover(r) ==
  /\ pc[r] = "upload"
  /\ \E l \in Perms(glob(Directory, fs)) :
       files_to_upload' = [files_to_upload EXCEPT ![r] = l]
  /\ idx' = [idx EXCEPT ![r] = 0]
  /\ pc' = [pc EXCEPT ![r] = "for"]
  /\ UNCHANGED <<shared, config, blob_name, keyTime, engine, marks, result>>

\* lines 127-133 raise (the client constructors reject their arguments)
ClientError(r) ==
  /\ pc[r] = "upload"
  /\ Abort(r, "client")
  /\ UNCHANGED <<shared, config, loop, engine, marks>>

\* lines 138-140 and 99: the for loop takes the next file, names its blob and
\* enters upload_file_to_blob with retry_count = 0
ForNext(r) ==
  /\ pc[r] = "for"
  /\ idx[r] < Len(files_to_upload[r])
  /\ idx' = [idx EXCEPT ![r] = idx[r] + 1]
  /\ blob_name' = [blob_name EXCEPT ![r] =
       BlobName(cfg[r].system_id, now, files_to_upload[r][idx[r] + 1])]
  /\ keyTime' = [keyTime EXCEPT ![r] = now]
  /\ retry_count' = [retry_count EXCEPT ![r] = 0]
  /\ attempts' = [attempts EXCEPT ![r] = 0]
  /\ fails' = [fails EXCEPT ![r] = 0]
  /\ sleeps' = [sleeps EXCEPT ![r] = 0]
  /\ overwrote' = [overwrote EXCEPT ![r] = FALSE]
  /\ renameCalls' = [renameCalls EXCEPT ![r] = 0]
  /\ pc' = [pc EXCEPT ![r] = "while"]
  /\ UNCHANGED <<shared, config, files_to_upload, outcome, failedFiles, result>>

\* line 140 raises: get_blob_client rejects the blob name
PrepareError(r) ==
  /\ pc[r] = "for"
  /\ idx[r] < Len(files_to_upload[r])
  /\ Abort(r, "prepare")
  /\ UNCHANGED <<shared, config, loop, engine, marks>>

\* the directory listed again when the list is exhausted: a file that has
\* appeared since line 136 is added to the list
ForEnd_rescan(r) ==
  /\ pc[r] = "for"
  /\ idx[r] >= Len(files_to_upload[r])
  /\ LET late == glob(Directory, fs) \ Range(files_to_upload[r])
     IN IF late = {}
          THEN /\ success' = [success EXCEPT ![r] = "None"]
               /\ pc' = [pc EXCEPT ![r] = "ret"]
               /\ UNCHANGED files_to_upload
          ELSE /\ files_to_upload' = [files_to_upload EXCEPT ![r] =
                    Append(@, CHOOSE p \in late : TRUE)]
               /\ UNCHANGED <<success, pc>>
  /\ UNCHANGED <<shared, config, idx, blob_name, keyTime, engine, marks, abortAt,
                 mainReturn, exitCode>>

\* the for loop is exhausted: the function falls off its end (returns None)
ForEnd(r) ==
  /\ pc[r] = "for"
  /\ idx[r] >= Len(files_to_upload[r])
  /\ success' = [success EXCEPT ![r] = "None"]
  /\ pc' = [pc EXCEPT ![r] = "ret"]
  /\ UNCHANGED <<shared, config, loop, engine, marks, abortAt, mainReturn, exitCode>>

\* ---------------------------------------------------- upload_file_to_blob
\* line 100 with <= for <: one attempt too many
MayAttempt_inclusive(r) == retry_count[r] <= cfg[r].max_retries

\* line 100
MayAttempt(r) == retry_count[r] < cfg[r].max_retries

\* lines 101-104 under a lock on the file: no upload of a file another
\* process is working on
AttemptOk_exclusive(r) ==
  /\ pc[r] = "while"
  /\ MayAttempt(r)
  /\ CurrentFile(r) \in fs
  /\ \A q \in Procs \ {r} : CurrentFile(q) # CurrentFile(r)
  /\ attempts' = [attempts EXCEPT ![r] = @ + 1]
  /\ blobs' = blobs \cup {blob_name[r]}
  /\ uploadLog' = uploadLog \cup
       {[system_id |-> cfg[r].system_id, file |-> CurrentFile(r),
         key |-> blob_name[r], keyDay |-> strftime_Ymd(keyTime[r])]}
  /\ overwrote' = [overwrote EXCEPT ![r] = blob_name[r] \in blobs]
  /\ pc' = [pc EXCEPT ![r] = "rename"]
  /\ UNCHANGED <<opsview_system_id, fs, now, started, prevFailed, config, loop,
                 retry_count, fails,
                 sleeps, marks, result>>

\* lines 101-104: open and upload_blob(overwrite=True) succeed: return True
AttemptOk(r) ==
  /\ pc[r] = "while"
  /\ MayAttempt(r)
  /\ CurrentFile(r) \in fs
  /\ attempts' = [attempts EXCEPT ![r] = @ + 1]
  /\ blobs' = blobs \cup {blob_name[r]}
  /\ uploadLog' = uploadLog \cup
       {[system_id |-> cfg[r].system_id, file |-> CurrentFile(r),
         key |-> blob_name[r], keyDay |-> strftime_Ymd(keyTime[r])]}
  /\ overwrote' = [overwrote EXCEPT ![r] = blob_name[r] \in blobs]
  /\ pc' = [pc EXCEPT ![r] = "rename"]
  /\ UNCHANGED <<opsview_system_id, fs, now, started, prevFailed, config, loop,
                 retry_count, fails,
                 sleeps, marks, result>>

\* the last attempt the budget allows
LastAttempt(r) == retry_count[r] + 1 >= cfg[r].max_retries

\* lines 105-109 ending in "return True": a failed upload taken for a success
AttemptFail_returnsTrue(r) ==
  /\ pc[r] = "while"
  /\ MayAttempt(r)
  /\ attempts' = [attempts EXCEPT ![r] = @ + 1]
  /\ fails' = [fails EXCEPT ![r] = @ + 1]
  /\ retry_count' = [retry_count EXCEPT ![r] = @ + 1]
  /\ failedFiles' = [failedFiles EXCEPT ![r] =
       IF LastAttempt(r) THEN @ \cup {CurrentFile(r)} ELSE @]
  /\ pc' = [pc EXCEPT ![r] = "rename"]
  /\ UNCHANGED <<shared, config, loop, sleeps, overwrote, renameCalls, outcome, result>>

\* lines 105-109 with line 139 inside the retry loop: the blob name is
\* computed again, with the date of the retry
AttemptFail_recomputesKey(r) ==
  /\ pc[r] = "while"
  /\ MayAttempt(r)
  /\ attempts' = [attempts EXCEPT ![r] = @ + 1]
  /\ fails' = [fails EXCEPT ![r] = @ + 1]
  /\ retry_count' = [retry_count EXCEPT ![r] = @ + 1]
  /\ failedFiles' = [failedFiles EXCEPT ![r] =
       IF LastAttempt(r) THEN @ \cup {CurrentFile(r)} ELSE @]
  /\ blob_name' = [blob_name EXCEPT ![r] =
       BlobName(cfg[r].system_id, now, CurrentFile(r))]
  /\ keyTime' = [keyTime EXCEPT ![r] = now]
  /\ pc' = [pc EXCEPT ![r] = "sleep"]
  /\ UNCHANGED <<shared, config, files_to_upload, idx, sleeps, overwrote,
                 renameCalls, outcome, result>>

\* lines 105-109: open or upload_blob raises; the attempt is counted
AttemptFail(r) ==
  /\ pc[r] = "while"
  /\ MayAttempt(r)
  /\ attempts' = [attempts EXCEPT ![r] = @ + 1]
  /\ fails' = [fails EXCEPT ![r] = @ + 1]
  /\ retry_count' = [retry_count EXCEPT ![r] = @ + 1]
  /\ failedFiles' = [failedFiles EXCEPT ![r] =
       IF LastAttempt(r) THEN @ \cup {CurrentFile(r)} ELSE @]
  /\ pc' = [pc EXCEPT ![r] = "sleep"]
  /\ UNCHANGED <<shared, config, loop, sleeps, overwrote, renameCalls, outcome, result>>

\* line 110 leaving upload_file_to_blob: the retry is put off and the for
\* loop takes the next file while this one is still unfinished
Sleep_nextFile(r) ==
  /\ pc[r] = "sleep"
  /\ cfg[r].retry_delay >= 0
  /\ sleeps' = [sleeps EXCEPT ![r] = @ + 1]
  /\ pc' = [pc EXCEPT ![r] = "for"]
  /\ UNCHANGED <<shared, config, loop, retry_count, attempts, fails, overwrote, marks,
                 result>>

\* line 110: time.sleep(retry_delay) after every failed attempt
Sleep(r) ==
  /\ pc[r] = "sleep"
  /\ cfg[r].retry_delay >= 0
  /\ sleeps' = [sleeps EXCEPT ![r] = @ + 1]
  /\ pc' = [pc EXCEPT ![r] = "while"]
  /\ UNCHANGED <<shared, config, loop, retry_count, attempts, fails, overwrote, marks,
                 result>>

\* line 110: time.sleep of a negative length raises ValueError, in the except
\* handler: it leaves upload_file_to_blob and the for loop (lines 154-156)
SleepError(r) ==
  /\ pc[r] = "sleep"
  /\ cfg[r].retry_delay < 0
  /\ Abort(r, "sleep")
  /\ UNCHANGED <<shared, config, loop, engine, marks>>

\* lines 112-113 and 151-152: the while loop ends, return False; "Skipping"
Exhausted(r) ==
  /\ pc[r] = "while"
  /\ ~MayAttempt(r)
  /\ outcome' = [outcome EXCEPT ![r][CurrentFile(r)] = "Skipped"]
  /\ failedFiles' = [failedFiles EXCEPT ![r] = @ \cup {CurrentFile(r)}]
  /\ pc' = [pc EXCEPT ![r] = "for"]
  /\ UNCHANGED <<shared, config, loop, engine, renameCalls, result>>

\* ------------------------------------------------- rename_file_on_success
\* lines 80-87 with a rename that does not need its source: the marked name
\* is created whether or not the original path still exists
RenameOk_sourceGone(r) ==
  /\ pc[r] = "rename"
  /\ fs' = (fs \ {CurrentFile(r)}) \cup {NewName(CurrentFile(r), now)}
  /\ renameCalls' = [renameCalls EXCEPT ![r] = @ + 1]
  /\ outcome' = [outcome EXCEPT ![r][CurrentFile(r)] = "Uploaded"]
  /\ pc' = [pc EXCEPT ![r] = "for"]
  /\ UNCHANGED <<opsview_system_id, now, blobs, uploadLog, started, prevFailed,
                 config, loop,
                 engine, failedFiles, result>>

\* line 85 as os.remove(original_path): the uploaded file is deleted
RenameOk_removes(r) ==
  /\ pc[r] = "rename"
  /\ CurrentFile(r) \in fs
  /\ fs' = fs \ {CurrentFile(r)}
  /\ renameCalls' = [renameCalls EXCEPT ![r] = @ + 1]
  /\ outcome' = [outcome EXCEPT ![r][CurrentFile(r)] = "Uploaded"]
  /\ pc' = [pc EXCEPT ![r] = "for"]
  /\ UNCHANGED <<opsview_system_id, now, blobs, uploadLog, started, prevFailed,
                 config, loop,
                 engine, failedFiles, result>>

\* lines 80-87 and 147-148: os.rename succeeds
RenameOk(r) ==
  /\ pc[r] = "rename"
  /\ CurrentFile(r) \in fs
  /\ fs' = (fs \ {CurrentFile(r)}) \cup {NewName(CurrentFile(r), now)}
  /\ renameCalls' = [renameCalls EXCEPT ![r] = @ + 1]
  /\ outcome' = [outcome EXCEPT ![r][CurrentFile(r)] = "Uploaded"]
  /\ pc' = [pc EXCEPT ![r] = "for"]
  /\ UNCHANGED <<opsview_system_id, now, blobs, uploadLog, started, prevFailed,
                 config, loop,
                 engine, failedFiles, result>>

\* lines 80-90 without the try: the error of os.rename leaves the for loop
RenameFail_raises(r) ==
  /\ pc[r] = "rename"
  /\ renameCalls' = [renameCalls EXCEPT ![r] = @ + 1]
  /\ Abort(r, "rename")
  /\ UNCHANGED <<shared, config, loop, engine, outcome, failedFiles>>

\* lines 88-90 and 149-150: os.rename raises; False, nothing else is done
RenameFail(r) ==
  /\ pc[r] = "rename"
  /\ renameCalls' = [renameCalls EXCEPT ![r] = @ + 1]
  /\ outcome' = [outcome EXCEPT ![r][CurrentFile(r)] = "UploadedNotRenamed"]
  /\ pc' = [pc EXCEPT ![r] = "for"]
  /\ UNCHANGED <<shared, config, loop, engine, failedFiles, result>>

\* ------------------------------------------------------- main, the result
\* lines 270-273: if not success: return 1, else return 0
MainResult(s) == IF ~Truthy(s) THEN 1 ELSE 0

\* lines 260-273: upload_files_to_blob has returned (the locals of its last
\* iteration are gone) and main returns
Return(r) ==
  /\ pc[r] = "ret"
  /\ mainReturn' = [mainReturn EXCEPT ![r] = MainResult(success[r])]
  /\ pc' = [pc EXCEPT ![r] = "exit"]
  /\ blob_name' = [blob_name EXCEPT ![r] = <<>>]
  /\ keyTime' = [keyTime EXCEPT ![r] = 0]
  /\ retry_count' = [retry_count EXCEPT ![r] = 0]
  /\ attempts' = [attempts EXCEPT ![r] = 0]
  /\ fails' = [fails EXCEPT ![r] = 0]
  /\ sleeps' = [sleeps EXCEPT ![r] = 0]
  /\ overwrote' = [overwrote EXCEPT ![r] = FALSE]
  /\ renameCalls' = [renameCalls EXCEPT ![r] = 0]
  /\ UNCHANGED <<shared, config, files_to_upload, idx, outcome, failedFiles,
                 abortAt, success, exitCode>>

\* lines 276-277: main() is called as a statement; its value is dropped and
\* the interpreter ends with status 0
ProcessExit(ret) == 0

Exit(r) ==
  /\ pc[r] = "exit"
  /\ exitCode' = [exitCode EXCEPT ![r] = ProcessExit(mainReturn[r])]
  /\ pc' = [pc EXCEPT ![r] = "done"]
  /\ UNCHANGED <<shared, config, loop, engine, marks, abortAt, success, mainReturn>>

\* one run of the script by process r
Run(r) ==
  \/ Start(r)
  \/ MissingParams(r)
  \/ Probe(r)
  \/ Discover(r)
  \/ ClientError(r)
  \/ ForNext(r)
  \/ PrepareError(r)
  \/ ForEnd(r)
  \/ AttemptOk(r)
  \/ AttemptFail(r)
  \/ Sleep(r)
  \/ SleepError(r)
  \/ Exhausted(r)
  \/ RenameOk(r)
  \/ RenameFail(r)
  \/ Return(r)
  \/ Exit(r)

\* the agent as operated: the scheduler runs the script, one run at a time
Next ==
  \/ Tick
  \/ \E s \in Stems : ExportCreate(s)
  \/ Run(Scheduled)

Spec == Init /\ [][Next]_vars

\* two processes run the script on the same directory with nothing to keep
\* them apart (the script takes no lock): their steps interleave.  The race
\* is over within a second: the clock and the export process stand still.
NextConc == \E r \in Procs : Run(r)

SpecConc == Init /\ [][NextConc]_vars

\* ------------------------------------------------------------ properties
\* the run of r has listed the directory
Listed(r) ==
  \/ pc[r] \in {"for", "while", "sleep", "rename"}
  \/ pc[r] \in {"ret", "exit", "done"} /\ probe[r] = "Reachable" /\ abortAt[r] # "client"

\* r is in the for loop, in or just after the body for CurrentFile(r): the
\* locals of upload_files_to_blob and the counts for the current file are live
InLoop(r) == idx[r] >= 1 /\ pc[r] \in {"while", "sleep", "rename", "for", "ret"}

\* p is f renamed with the success marker: uploaded_at_<timestamp>_<name of f>
IsMarked(p, f) ==
  /\ dirname(p) = dirname(f)
  /\ Len(basename(p)) = Len(basename(f)) + 3
  /\ basename(p)[1] = "uploaded_at_"
  /\ basename(p)[3] = "_"
  /\ SubSeq(basename(p), 4, Len(basename(p))) = basename(f)

MarkedCopies(f) == {p \in fs : IsMarked(p, f)}

\* the upload of the file a step of r attempts
AttemptStep(r) == attempts'[r] = attempts[r] + 1

\* C1: for every discovered file at most max_retries upload attempts are
\* made, every attempt is made with the counter in [0, max_retries), and a
\* file is reported skipped only after exactly max_retries failed attempts.
C1_AttemptBudget ==
  /\ [](\A r \in Procs : InLoop(r) =>
          /\ attempts[r] <= cfg[r].max_retries
          /\ outcome[r][CurrentFile(r)] = "Skipped" => fails[r] = cfg[r].max_retries)
  /\ [][\A r \in Procs : AttemptStep(r) =>
          retry_count[r] >= 0 /\ retry_count[r] < cfg[r].max_retries]_vars

\* C2 as stated: once the upload of a file has succeeded, the file is renamed
\* with the success marker exactly once.
C2_RenamedExactlyOnce ==
  \A r \in Procs : \A f \in PendingPaths :
    outcome[r][f] \in {"Uploaded", "UploadedNotRenamed"} =>
      f \notin fs /\ Cardinality(MarkedCopies(f)) = 1

\* C2, amended: if the upload of a file succeeds on attempt k <= max_retries
\* the engine returns success at once (the k-th attempt is the only one that
\* succeeded and the last one made), no further attempt is made on that file
\* in this run, rename_file_on_success is called exactly once, and the file
\* is renamed with the success marker exactly once if that call succeeds and
\* keeps its name if it fails.
C2_SuccessThenOneRename ==
  /\ [](\A r \in Procs :
          /\ pc[r] = "rename" =>
               /\ attempts[r] = fails[r] + 1
               /\ attempts[r] >= 1 /\ attempts[r] <= cfg[r].max_retries
               /\ renameCalls[r] = 0
               /\ outcome[r][CurrentFile(r)] = "none"
          /\ \A i, j \in 1..Len(files_to_upload[r]) :
               files_to_upload[r][i] = files_to_upload[r][j] => i = j
          /\ InLoop(r) /\ outcome[r][CurrentFile(r)] \in {"Uploaded", "UploadedNotRenamed"} =>
               /\ renameCalls[r] = 1
               /\ attempts[r] = fails[r] + 1
          /\ \A f \in PendingPaths :
               /\ outcome[r][f] = "Uploaded" =>
                    f \notin fs /\ Cardinality(MarkedCopies(f)) = 1
               /\ outcome[r][f] = "UploadedNotRenamed" =>
                    f \in fs /\ MarkedCopies(f) = {})
  /\ [][\A r \in Procs : AttemptStep(r) =>
          /\ pc[r] = "while"
          /\ attempts[r] = fails[r]
          /\ outcome[r][CurrentFile(r)] = "none"]_vars

\* the scenario of the specification: two failures, then success within a
\* budget of three, and the file renamed
C2_Witness ==
  \E r \in Procs :
    /\ cfg[r].max_retries = 3
    /\ InLoop(r)
    /\ fails[r] = 2 /\ attempts[r] = 3
    /\ outcome[r][CurrentFile(r)] = "Uploaded"
    /\ Cardinality(MarkedCopies(CurrentFile(r))) = 1

\* C3: if all max_retries attempts on a file fail, rename_file_on_success is
\* not called for it in this run, the file keeps its name and the next run
\* lists it; a rename is always preceded by a successful upload attempt of
\* the same file in the same run.
C3_FailedFileStaysPending ==
  /\ [](\A r \in Procs :
          /\ \A f \in failedFiles[r] :
               /\ f \in fs
               /\ MarkedCopies(f) = {}
               /\ outcome[r][f] \in {"none", "Skipped"}
               /\ f = CurrentFile(r) => renameCalls[r] = 0
          /\ Listed(r) => prevFailed \subseteq Range(files_to_upload[r]))
  /\ [][\A r \in Procs : renameCalls'[r] = renameCalls[r] + 1 =>
          /\ pc[r] = "rename"
          /\ attempts[r] = fails[r] + 1
          /\ blob_name[r] \in blobs
          /\ CurrentFile(r) \notin failedFiles[r]]_vars

\* a file whose three attempts all failed is in the list of the next run
C3_Witness ==
  \E r \in Procs : \E f \in prevFailed :
    /\ started = 2
    /\ pc[r] = "while"
    /\ CurrentFile(r) = f
    /\ f \in fs

ProbeFailed(r) == probe[r] \in {"AuthFailed", "NetworkFailed", "OtherFailed"}

\* C4: a run whose connectivity probe failed has listed nothing, attempted
\* no upload, renamed nothing, and its exit code is 1.
C4_ProbeFailureExitsOne ==
  \A r \in Procs : pc[r] = "done" /\ ProbeFailed(r) =>
    /\ files_to_upload[r] = <<>>
    /\ attempts[r] = 0
    /\ renameCalls[r] = 0
    /\ \A f \in PendingPaths : outcome[r][f] = "none"
    /\ mainReturn[r] = 1
    /\ exitCode[r] = 1

\* C5: a run whose probe succeeded and whose loop went through the whole
\* list ends in success, exit code 0, whatever happened to the files.
C5_CompletedRunSucceeds ==
  \A r \in Procs :
    pc[r] = "done" /\ probe[r] = "Reachable" /\ abortAt[r] = "none" =>
      mainReturn[r] = 0 /\ exitCode[r] = 0

\* C6: time.sleep(retry_delay) happens only between two attempts on a file:
\* an attempt follows every sleep, and a file whose max_retries attempts all
\* failed has had max_retries - 1 sleeps.
C6_SleepOnlyBetweenAttempts ==
  \A r \in Procs :
    /\ pc[r] = "while" /\ sleeps[r] > 0 => MayAttempt(r)
    /\ pc[r] = "rename" => sleeps[r] = fails[r]
    /\ InLoop(r) /\ outcome[r][CurrentFile(r)] = "Skipped" /\ cfg[r].max_retries >= 1 =>
         sleeps[r] = cfg[r].max_retries - 1

\* C7: the retry policy of every accepted configuration has max_retries >= 1,
\* and no file is reported skipped without an upload attempt.
C7_AtLeastOneAttempt ==
  \A r \in Procs :
    /\ InLoop(r) => cfg[r].max_retries >= 1
    /\ InLoop(r) /\ outcome[r][CurrentFile(r)] = "Skipped" => attempts[r] >= 1

\* the key <system_id>/<date>/<base name>, date as strftime('%Y%m%d') gives it
KeyOf(system_id, date, base) == <<system_id, "/", date, "/">> \o base

\* a step of r in which upload_blob succeeds
UploadStep(r) == pc[r] = "while" /\ pc'[r] = "rename"

\* C8 as stated: the key of an upload is <system_id>/<YYYYMMDD of the day of
\* the upload>/<base file name>.
C8_KeyHasUploadDay ==
  [][\A r \in Procs : UploadStep(r) =>
       /\ blob_name[r] = KeyOf(cfg[r].system_id, strftime_Ymd(now), basename(CurrentFile(r)))
       /\ blob_name[r] \in blobs']_vars

\* C8, amended: the key of an upload is <system_id>/<YYYYMMDD of the day on
\* which the run began to process the file (when blob_name was computed, before
\* the first attempt)>/<base file name> and depends on nothing else: two
\* uploads of a file with the same base name, from the same system_id, with
\* that same day (in one run or in two) address the same key, so that a
\* re-upload overwrites the key and creates no second object.
C8_KeyIsFunctionOfIdDayName ==
  /\ [](/\ \A u \in uploadLog : u.key = KeyOf(u.system_id, u.keyDay, basename(u.file))
        /\ \A u, v \in uploadLog :
             /\ u.system_id = v.system_id
             /\ u.keyDay = v.keyDay
             /\ basename(u.file) = basename(v.file)
             => u.key = v.key
        /\ blobs = {u.key : u \in uploadLog}
        /\ Cardinality(blobs) =
             Cardinality({<<u.system_id, u.keyDay, basename(u.file)>> : u \in uploadLog})
        /\ \A r \in Procs : overwrote[r] => pc[r] \in {"rename", "for", "ret", "exit", "done"})
  /\ [][\A r \in Procs : UploadStep(r) =>
          /\ blob_name[r] = KeyOf(cfg[r].system_id, strftime_Ymd(keyTime[r]),
                                  basename(CurrentFile(r)))
          /\ blobs' = blobs \cup {blob_name[r]}
          /\ blob_name[r] \in blobs => Cardinality(blobs') = Cardinality(blobs)]_vars

\* a second upload of the same file, by a later run on the same day, has
\* written the key of the first
C8_Witness ==
  /\ started = 2
  /\ Cardinality(blobs) = 1
  /\ Cardinality(uploadLog) = 1
  /\ \E r \in Procs : pc[r] = "rename" /\ overwrote[r]

\* a step of r in which rename_file_on_success returns False
RenameFailStep(r) ==
  /\ pc[r] = "rename"
  /\ renameCalls'[r] = renameCalls[r] + 1
  /\ ~\E p \in fs' \ fs : IsMarked(p, CurrentFile(r))

\* C9: when the rename fails after a successful upload nothing is undone:
\* the blob stays, the file keeps its name and gets no further upload attempt
\* in this run, the outcome is UploadedNotRenamed, the loop goes on with the
\* next file and the run does not become a failure by it.
C9_RenameFailureIsNotFatal ==
  /\ [][\A r \in Procs : RenameFailStep(r) =>
          /\ blob_name[r] \in blobs /\ blobs' = blobs
          /\ fs' = fs /\ CurrentFile(r) \in fs
          /\ attempts'[r] = attempts[r]
          /\ outcome'[r][CurrentFile(r)] = "UploadedNotRenamed"
          /\ pc'[r] = "for" /\ idx'[r] = idx[r]
          /\ files_to_upload'[r] = files_to_upload[r]
          /\ abortAt'[r] = "none" /\ success'[r] = "unset"]_vars
  /\ [][\A r \in Procs : AttemptStep(r) =>
          outcome[r][CurrentFile(r)] # "UploadedNotRenamed"]_vars
  /\ [](\A r \in Procs : \A f \in PendingPaths :
          outcome[r][f] = "UploadedNotRenamed" =>
            /\ f \in fs
            /\ \E u \in uploadLog : u.file = f /\ u.key \in blobs
            /\ abortAt[r] = "none" => success[r] \in {"unset", "None"}
            /\ pc[r] = "done" /\ abortAt[r] = "none" =>
                 \A g \in Range(files_to_upload[r]) : outcome[r][g] # "none")

\* a rename failed on the first file and the second file was then uploaded
\* and renamed
C9_Witness ==
  \E r \in Procs :
    /\ Len(files_to_upload[r]) = 2
    /\ outcome[r][files_to_upload[r][1]] = "UploadedNotRenamed"
    /\ outcome[r][files_to_upload[r][2]] = "Uploaded"
    /\ pc[r] = "done"

\* C10: in a run whose probe succeeded every file of the list gets an
\* outcome, whatever happened to the files before it: no failure of an upload
\* or of a rename ends the loop.  (The exceptions of the client constructors
\* and of get_blob_client are not failures of a file's upload or rename.)
C10_EveryFileGetsAnOutcome ==
  \A r \in Procs :
    pc[r] = "done" /\ Listed(r) /\ abortAt[r] \notin {"client", "prepare"} =>
      \A f \in Range(files_to_upload[r]) :
        outcome[r][f] \in {"Uploaded", "UploadedNotRenamed", "Skipped"}

\* p carries the success marker: its name begins with "uploaded_at_"
HasMarker(p) == Len(basename(p)) >= 1 /\ basename(p)[1] = "uploaded_at_"

\* a step of r in which rename_file_on_success is called
RenameStep(r) == renameCalls'[r] = renameCalls[r] + 1

\* C11: with runs that do not overlap, a file that was uploaded and renamed
\* to uploaded_at_<timestamp>_<name> is not in the list of any later run: no
\* listed path carries the marker, a path whose marked copy was made by an
\* earlier run is not listed, no upload attempt and no rename is made on a
\* file that has a marked copy, and a marked copy stays as it is.
C11_RenamedNeverListedAgain ==
  /\ [](\A r \in Procs :
          /\ \A p \in fs : HasMarker(p) => p \notin glob(Directory, fs)
          /\ \A f \in Range(files_to_upload[r]) : ~HasMarker(f)
          /\ \A f \in PendingPaths :
               MarkedCopies(f) # {} /\ outcome[r][f] # "Uploaded" =>
                 f \notin Range(files_to_upload[r]))
  /\ [][\A r \in Procs : AttemptStep(r) \/ RenameStep(r) =>
          /\ ~HasMarker(CurrentFile(r))
          /\ MarkedCopies(CurrentFile(r)) = {}]_vars
  /\ [][\A p \in fs : HasMarker(p) => p \in fs']_vars

\* the second run has listed the directory, which holds the file the first
\* run uploaded and renamed, and is working on another file
C11_Witness ==
  \E r \in Procs : \E f \in PendingPaths :
    /\ started = 2
    /\ MarkedCopies(f) # {}
    /\ outcome[r][f] = "none"
    /\ pc[r] = "rename"
    /\ CurrentFile(r) # f

\* the loop body has finished with f: it logged an upload or a skip
Finished(r, f) == outcome[r][f] \in {"Uploaded", "UploadedNotRenamed", "Skipped"}

\* the positions of the list whose file the run has begun and not finished
InProgress(r) ==
  {i \in 1..Len(files_to_upload[r]) : i <= idx[r] /\ ~Finished(r, files_to_upload[r][i])}

\* C12: a run works on its files one after the other: at most one file is
\* begun and unfinished, and it is the current one; the files after it are
\* untouched; every upload attempt and every rename is made on the current
\* file, with all earlier files finished and no later file begun; the loop
\* moves on by one position, and only when the current file is finished.
C12_OneFileAtATime ==
  /\ [](\A r \in Procs :
          /\ idx[r] <= Len(files_to_upload[r])
          /\ InProgress(r) \subseteq {idx[r]}
          /\ pc[r] \in {"while", "sleep", "rename"} => InProgress(r) = {idx[r]}
          /\ \A i \in 1..Len(files_to_upload[r]) :
               i > idx[r] => outcome[r][files_to_upload[r][i]] = "none")
  /\ [][\A r \in Procs : AttemptStep(r) \/ RenameStep(r) =>
          /\ idx'[r] = idx[r] /\ idx[r] >= 1
          /\ files_to_upload'[r] = files_to_upload[r]
          /\ \A i \in 1..Len(files_to_upload[r]) :
               /\ i < idx[r] => Finished(r, files_to_upload[r][i])
               /\ i >= idx[r] => outcome[r][files_to_upload[r][i]] = "none"
               /\ i # idx[r] =>
                    outcome'[r][files_to_upload[r][i]] = outcome[r][files_to_upload[r][i]]]_vars
  /\ [][\A r \in Procs : idx'[r] # idx[r] /\ idx'[r] # 0 =>
          /\ idx'[r] = idx[r] + 1
          /\ idx[r] >= 1 => Finished(r, CurrentFile(r))
          /\ attempts'[r] = 0 /\ renameCalls'[r] = 0]_vars

\* the first file of a list of two was retried and finished, and the second
\* is being retried
C12_Witness ==
  \E r \in Procs :
    /\ Len(files_to_upload[r]) = 2
    /\ idx[r] = 2
    /\ pc[r] = "while"
    /\ fails[r] >= 1
    /\ Finished(r, files_to_upload[r][1])
    /\ \E u \in uploadLog : u.file = files_to_upload[r][1]

\* the matching files that are in the directory and not in the list of r
Unlisted(r) == glob(Directory, fs) \ Range(files_to_upload[r])

\* C13: the files a run works on are those of one listing of the directory,
\* made after the probe succeeded and before any upload of the run: the list
\* is set once and never changes until the run has ended, and a matching file
\* that is not in it (it appeared after the listing) gets no upload attempt,
\* no blob, no rename and no outcome from this run.
C13_ListIsASnapshot ==
  /\ [](\A r \in Procs : \A f \in PendingPaths :
          f \notin Range(files_to_upload[r]) => outcome[r][f] = "none")
  /\ [][\A r \in Procs : files_to_upload'[r] # files_to_upload[r] =>
          \/ /\ pc[r] = "upload" /\ pc'[r] = "for"
             /\ probe[r] = "Reachable"
             /\ idx[r] = 0 /\ attempts[r] = 0
             /\ \A f \in PendingPaths : outcome[r][f] = "none"
             /\ Range(files_to_upload'[r]) = glob(Directory, fs)
          \/ /\ pc[r] \in {"idle", "done"}
             /\ files_to_upload'[r] = <<>>]_vars
  /\ [][\A r \in Procs : AttemptStep(r) \/ RenameStep(r) =>
          /\ Unlisted(r) \subseteq fs'
          /\ \A u \in uploadLog' \ uploadLog : u.file \in Range(files_to_upload[r])
          /\ \A f \in PendingPaths :
               outcome'[r][f] # outcome[r][f] => f \in Range(files_to_upload[r])]_vars
  /\ [][\A r \in Procs : pc[r] \in {"for", "while", "sleep", "rename"} =>
          \A p \in glob(Directory, fs') \ glob(Directory, fs) :
            p \in Unlisted(r)']_vars

\* a run has gone through its whole list, retried and uploaded a file, and a
\* matching file that appeared after the listing is still pending, untouched
C13_Witness ==
  \E r \in Procs : \E f \in Unlisted(r) :
    /\ pc[r] = "ret"
    /\ success[r] = "None"
    /\ fails[r] >= 1
    /\ outcome[r][CurrentFile(r)] = "Uploaded"
    /\ outcome[r][f] = "none"
    /\ ~\E u \in uploadLog : u.file = f

\* r has uploaded f in its run: upload_file_to_blob returned True for it
HasUploaded(r, f) ==
  \/ pc[r] = "rename" /\ CurrentFile(r) = f
  \/ outcome[r][f] \in {"Uploaded", "UploadedNotRenamed"}

\* C14: nothing keeps two runs that are active at the same time from
\* uploading the same pending file: the upload of a listed file that is still
\* in the directory under its name can succeed whatever the other run has
\* done with that file, so that a state in which both runs have uploaded the
\* same file is reachable (C14_Witness).
C14_UploadIsNeverExcluded ==
  \A r \in Procs :
    /\ pc[r] = "while" /\ MayAttempt(r) /\ CurrentFile(r) \in fs => ENABLED AttemptOk(r)
    /\ \A q \in Procs \ {r} : \A f \in PendingPaths :
         HasUploaded(r, f) /\ HasUploaded(q, f) =>
           /\ \E u \in uploadLog : u.file = f /\ u.key \in blobs
           /\ f \in Range(files_to_upload[r]) \cap Range(files_to_upload[q])

\* double upload: both runs have uploaded the same pending file and neither
\* has renamed it yet; the second upload has replaced the blob of the first
C14_Witness ==
  \E f \in PendingPaths :
    /\ \A r \in Procs : pc[r] = "rename" /\ CurrentFile(r) = f /\ attempts[r] >= 1
    /\ \E r \in Procs : overwrote[r]
    /\ f \in fs

\* the runs whose rename of f succeeded
Renamers(f) == {r \in Procs : outcome[r][f] = "Uploaded"}

\* r is about to call os.rename on a file another run has already renamed
LostRace(r) ==
  /\ pc[r] = "rename"
  /\ CurrentFile(r) \in PendingPaths
  /\ \E q \in Procs \ {r} : outcome[q][CurrentFile(r)] = "Uploaded"

\* C15 as stated: when two runs race on the same pending file and one of
\* them has renamed it, the rename of the other run can succeed as well, so
\* that the file is renamed by both runs (double rename).
C15_DoubleRename ==
  \A r \in Procs : LostRace(r) => ENABLED RenameOk(r)

\* C15, amended: with two runs active at the same time on the same
\* directory both can upload the same pending file and both call
\* rename_file_on_success for it, but the rename of at most one run succeeds:
\* for the other run the original path is gone, os.rename raises, the call
\* returns False and changes nothing, and the file has exactly one marked copy.
C15_AtMostOneRenameSucceeds ==
  /\ [](\A f \in PendingPaths :
          /\ Cardinality(Renamers(f)) <= 1
          /\ Cardinality(MarkedCopies(f)) <= 1
          /\ Renamers(f) # {} => f \notin fs /\ Cardinality(MarkedCopies(f)) = 1)
  /\ [](\A r \in Procs : LostRace(r) =>
          /\ CurrentFile(r) \notin fs
          /\ ~ENABLED RenameOk(r)
          /\ ENABLED RenameFail(r))
  /\ [][\A r \in Procs : LostRace(r) /\ RenameStep(r) =>
          /\ fs' = fs
          /\ outcome'[r][CurrentFile(r)] = "UploadedNotRenamed"
          /\ pc'[r] = "for"]_vars

\* both runs are active and have uploaded the same file; one has renamed it
\* and the other is about to call rename_file_on_success for it
C15_Witness ==
  \E r \in Procs :
    /\ LostRace(r)
    /\ attempts[r] >= 1
    /\ Cardinality(MarkedCopies(CurrentFile(r))) = 1
    /\ \A q \in Procs \ {r} : pc[q] = "for" /\ HasUploaded(q, CurrentFile(r))

\* a step of the script (of some run), not of the clock or the export process
RunStep == \E r \in Procs : pc'[r] # pc[r]

\* C16: a run deletes nothing and touches no file that does not match
\* results_export_*.tar.gz: a step of a run either leaves the directory as it
\* is or renames one file of the run's list, which matches the pattern and
\* exists, to uploaded_at_<timestamp>_<its base name> in the same directory;
\* every other file stays, and the number of files does not change.
C16_OnlyRenamesListedFiles ==
  /\ [][RunStep =>
          \/ fs' = fs
          \/ \E r \in Procs :
               /\ RenameStep(r)
               /\ CurrentFile(r) \in Range(files_to_upload[r])
               /\ CurrentFile(r) \in fs
               /\ MatchesPattern(basename(CurrentFile(r)))
               /\ fs \ fs' = {CurrentFile(r)}
               /\ fs' \ fs = {NewName(CurrentFile(r), now)}
               /\ \A p \in fs' \ fs :
                    /\ IsMarked(p, CurrentFile(r))
                    /\ dirname(p) = dirname(CurrentFile(r))
                    /\ basename(p)[2] = strftime_YmdHMS(now)
               /\ Cardinality(fs') = Cardinality(fs)]_vars
  /\ [][\A p \in fs : ~MatchesPattern(basename(p)) => p \in fs']_vars
  /\ [][Cardinality(fs') >= Cardinality(fs)]_vars

\* a run has ended after renaming one file of its list, beside a file that
\* does not match the pattern and a pending file it did not rename
C16_Witness ==
  \E r \in Procs : \E f \in PendingPaths :
    /\ pc[r] = "done"
    /\ outcome[r][f] = "Uploaded"
    /\ Cardinality(MarkedCopies(f)) = 1
    /\ OtherFile \in fs
    /\ \E g \in PendingPaths : g \in fs /\ outcome[r][g] = "Skipped"
    /\ Cardinality(fs) = 3

\* a step of r that leaves upload_file_to_blob
EngineEnds(r) == pc[r] \in {"while", "sleep"} /\ pc'[r] \notin {"while", "sleep"}

\* C17: for every positive max_retries the upload engine ends, for every
\* file, in Succeeded (an attempt succeeded) or in Exhausted (max_retries
\* attempts failed) whatever the blob service does, after at most max_retries
\* attempts, and no attempt or sleep on that file follows.
C17_EngineEndsSucceededOrExhausted ==
  /\ [](\A r \in Procs : InLoop(r) /\ cfg[r].max_retries >= 1 =>
          attempts[r] <= cfg[r].max_retries)
  /\ [][\A r \in Procs : EngineEnds(r) /\ cfg[r].max_retries >= 1 =>
          \/ /\ pc'[r] = "rename"
             /\ attempts'[r] = fails[r] + 1
          \/ /\ pc'[r] = "for"
             /\ outcome'[r][CurrentFile(r)] = "Skipped"
             /\ fails[r] = cfg[r].max_retries]_vars
  /\ [][\A r \in Procs : (AttemptStep(r) \/ sleeps'[r] = sleeps[r] + 1) =>
          ~Finished(r, CurrentFile(r)) /\ pc[r] # "rename"]_vars

\* the run of r got its required parameters (lines 247-251 did not return)
ParamsGiven(r) == cfg[r].system_id # ""

\* C18: main returns failure (1) only if the probe failed or an exception
\* was raised outside the handling of a single upload attempt or rename; and
\* when such an exception is raised while the for loop runs, the loop stops,
\* the files after the current one get no attempt and no rename, and main
\* returns failure.
C18_FailureOnlyOnProbeOrUnexpectedError ==
  \A r \in Procs : pc[r] = "done" /\ ParamsGiven(r) =>
    /\ mainReturn[r] = 1 => ProbeFailed(r) \/ abortAt[r] # "none"
    /\ abortAt[r] # "none" =>
         /\ mainReturn[r] = 1
         /\ \A i \in 1..Len(files_to_upload[r]) :
              i > idx[r] => outcome[r][files_to_upload[r][i]] = "none"

\* r is inside upload_file_to_blob or between it and the rename
InEngine(r) == pc[r] \in {"while", "sleep", "rename"}

\* C19: all upload attempts of a run on one file address the same blob name:
\* it is computed once, when the loop takes the file and before the first
\* attempt, from the date of that moment, and stays as it is through every
\* attempt, sleep and tick of the clock until the loop is done with the file.
C19_KeyComputedOncePerFile ==
  /\ [](\A r \in Procs : InEngine(r) =>
          blob_name[r] = KeyOf(cfg[r].system_id, strftime_Ymd(keyTime[r]),
                               basename(CurrentFile(r))))
  /\ [][\A r \in Procs : InEngine(r) /\ InEngine(r)' =>
          /\ blob_name'[r] = blob_name[r]
          /\ keyTime'[r] = keyTime[r]
          /\ CurrentFile(r)' = CurrentFile(r)]_vars
  /\ [][\A r \in Procs : blob_name'[r] # blob_name[r] /\ blob_name'[r] # <<>> =>
          /\ pc[r] = "for" /\ pc'[r] = "while"
          /\ attempts'[r] = 0
          /\ keyTime'[r] = now
          /\ blob_name'[r] = KeyOf(cfg[r].system_id, strftime_Ymd(now),
                                   basename(CurrentFile(r)'))]_vars
  /\ [][\A r \in Procs : UploadStep(r) =>
          blobs' \ blobs \subseteq {blob_name[r]} /\ blob_name[r] \in blobs']_vars

\* the date changed while a file was being retried: the attempt that
\* succeeded after a failed one wrote the key with the earlier date
C19_Witness ==
  \E r \in Procs :
    /\ pc[r] = "rename"
    /\ fails[r] >= 1
    /\ strftime_Ymd(now) # strftime_Ymd(keyTime[r])
    /\ blob_name[r] \in blobs
    /\ blob_name[r] # KeyOf(cfg[r].system_id, strftime_Ymd(now), basename(CurrentFile(r)))

====
